---------------------------- MODULE Spec2Model ----------------------------
(***************************************************************************)
(* A model of pr-view (src/main.go): the persisted repository list         *)
(* (RepoStore), the concurrent fetch of `pr-view list` (cmdList), the      *)
(* process exit codes (main) and the title truncation of the table         *)
(* renderer (truncate, printTable).                                        *)
(*                                                                         *)
(* A Go string is a sequence of one-character strings, so that trimming,   *)
(* splitting, case folding, number parsing, URL parsing and JSON quoting   *)
(* are computed character by character, as the code computes them.  The    *)
(* titles of the renderer are sequences of runes, each with its UTF-8      *)
(* width.                                                                  *)
(***************************************************************************)
EXTENDS Integers, Sequences, FiniteSets, TLC

VARIABLES
    file,       \* the repos.json file: [kind, data]
    lastOp,     \* the last RepoStore call: [op, raw, err, repo, before, loaded]
    argv,       \* os.Args[1:] of the running process
    homeOK,     \* whether NewRepoStore succeeds for the running process
    pcMain,     \* the main goroutine's position
    exitCode,   \* the process's exit status, -1 while it runs
    repos,      \* cmdList: the loaded refs
    nextSpawn,  \* cmdList: index of the next ref of the `for range repos` loop
    wg,         \* cmdList: the WaitGroup's counter
    ch,         \* cmdList: the buffered channel's queue
    chClosed,   \* cmdList: whether close(ch) has run
    pcW,        \* cmdList: each goroutine's position
    outcome,    \* cmdList: what fetchPRs returned in each goroutine
    sends,      \* cmdList: how many times each goroutine has sent on ch
    results,    \* cmdList: the results slice read back from ch
    table,      \* what printTable rendered: the rows
    rres        \* the renderer's input: one PRResult

vars == <<file, lastOp, argv, homeOK, pcMain, exitCode, repos, nextSpawn, wg,
          ch, chClosed, pcW, outcome, sends, results, table, rres>>

---------------------------------------------------------------------------
(* Characters *)

Upper == <<"A","B","C","D","E","F","G","H","I","J","K","L","M",
           "N","O","P","Q","R","S","T","U","V","W","X","Y","Z">>
Lower == <<"a","b","c","d","e","f","g","h","i","j","k","l","m",
           "n","o","p","q","r","s","t","u","v","w","x","y","z">>
Digits == <<"0","1","2","3","4","5","6","7","8","9">>

\* The printable ASCII characters, code points 32..126 in order (the grave
\* accent, which the string syntax lacks, by name).
Ascii == <<" ","!","\"","#","$","%","&","'","(",")","*","+",",","-",".","/",
           "0","1","2","3","4","5","6","7","8","9",":",";","<","=",">","?",
           "@","A","B","C","D","E","F","G","H","I","J","K","L","M","N","O",
           "P","Q","R","S","T","U","V","W","X","Y","Z","[","\\","]","^","_",
           "GRAVE","a","b","c","d","e","f","g","h","i","j","k","l","m","n","o",
           "p","q","r","s","t","u","v","w","x","y","z","{","|","}","~">>

\* LET x == e IN F(x), with e evaluated once however often F uses x
With(e, F(_)) == CHOOSE y \in {F(x) : x \in {e}} : TRUE

\* the place of c in the table, 0 when it is not there
IndexIn(c, tbl) ==
    IF \E i \in 1..Len(tbl) : tbl[i] = c
    THEN CHOOSE i \in 1..Len(tbl) : tbl[i] = c
    ELSE 0

IsUpper(c) == \E i \in 1..Len(Upper) : Upper[i] = c
IsLower(c) == \E i \in 1..Len(Lower) : Lower[i] = c
IsLetter(c) == IsUpper(c) \/ IsLower(c)
IsDigit(c) == \E i \in 1..Len(Digits) : Digits[i] = c
DigitVal(c) == IndexIn(c, Digits) - 1

\* unicode.IsSpace on the characters of the model
IsSpace(c) == c \in {" ", "\t", "\n", "\r"}

\* an ASCII control character (net/url's stringContainsCTLByte)
IsCTL(c) == c \in {"\t", "\n", "\r"}

\* the code point of a printable ASCII character, and back
CodeOf(c) == IndexIn(c, Ascii) + 31
CharOf(n) == Ascii[n - 31]

IsHex(c) == IsDigit(c) \/ c \in {"a","b","c","d","e","f","A","B","C","D","E","F"}
HexVal(c) ==
    IF IsDigit(c) THEN DigitVal(c)
    ELSE IF IsLower(c) THEN IndexIn(c, Lower) + 9
    ELSE IndexIn(c, Upper) + 9
HexDigit(n) == IF n < 10 THEN Digits[n + 1] ELSE Lower[n - 9]

\* simple case folding of one character (strings.EqualFold, ASCII letters)
ToLower(c) == IF IsUpper(c) THEN Lower[IndexIn(c, Upper)] ELSE c

SetMin(S) == CHOOSE x \in S : \A y \in S : x <= y
SetMax(S) == CHOOSE x \in S : \A y \in S : x >= y

---------------------------------------------------------------------------
(* package strings *)

\* strings.TrimSpace
TrimSpace(s) ==
    With({i \in 1..Len(s) : ~IsSpace(s[i])}, LAMBDA keep :
        IF keep = {} THEN <<>> ELSE SubSeq(s, SetMin(keep), SetMax(keep)))

\* strings.Trim(s, cutset), cutset a set of characters
Trim(s, cutset) ==
    With({i \in 1..Len(s) : s[i] \notin cutset}, LAMBDA keep :
        IF keep = {} THEN <<>> ELSE SubSeq(s, SetMin(keep), SetMax(keep)))

\* strings.Index, 1-based; 0 when sub does not occur (Go's -1)
Index(s, sub) ==
    With({i \in 1..(Len(s) - Len(sub) + 1) :
             s[i] = sub[1] /\ SubSeq(s, i, i + Len(sub) - 1) = sub}, LAMBDA hits :
        IF hits = {} THEN 0 ELSE SetMin(hits))

Contains(s, sub) == Index(s, sub) # 0

HasPrefix(s, p) == Len(s) >= Len(p) /\ SubSeq(s, 1, Len(p)) = p

\* strings.Cut: [before, after, found]
Cut(s, sep) ==
    With(Index(s, sep), LAMBDA i :
        IF i = 0
        THEN [before |-> s, after |-> <<>>, found |-> FALSE]
        ELSE [before |-> SubSeq(s, 1, i - 1),
              after  |-> SubSeq(s, i + Len(sep), Len(s)),
              found  |-> TRUE])

\* strings.Split(s, sep), sep not empty
RECURSIVE Split(_, _)
Split(s, sep) ==
    With(Cut(s, sep), LAMBDA c :
        IF c.found THEN <<c.before>> \o Split(c.after, sep) ELSE <<s>>)

\* strings.SplitN(s, sep, 2)
SplitN2(s, sep) ==
    With(Cut(s, sep), LAMBDA c :
        IF c.found THEN <<c.before, c.after>> ELSE <<s>>)

\* strings.EqualFold: the characters are equal, or equal once folded
EqualFold(a, b) ==
    /\ Len(a) = Len(b)
    /\ \A i \in 1..Len(a) : a[i] = b[i] \/ ToLower(a[i]) = ToLower(b[i])

---------------------------------------------------------------------------
(* package strconv *)

RECURSIVE DecVal(_)
DecVal(ds) ==
    IF ds = <<>> THEN 0
    ELSE 10 * DecVal(SubSeq(ds, 1, Len(ds) - 1)) + DigitVal(ds[Len(ds)])

\* strconv.Atoi: an optional sign, then one or more decimal digits
Atoi(s) ==
    With(IF Len(s) > 0 /\ s[1] \in {"+", "-"} THEN Tail(s) ELSE s, LAMBDA ds :
        IF Len(ds) = 0 \/ \E i \in 1..Len(ds) : ~IsDigit(ds[i])
        THEN [ok |-> FALSE, val |-> 0]
        ELSE [ok |-> TRUE,
              val |-> IF s[1] = "-" THEN 0 - DecVal(ds) ELSE DecVal(ds)])

RECURSIVE NatStr(_)
NatStr(n) ==
    IF n < 10 THEN <<Digits[n + 1]>>
    ELSE NatStr(n \div 10) \o <<Digits[(n % 10) + 1]>>

\* fmt's %d
Itoa(n) == IF n < 0 THEN <<"-">> \o NatStr(0 - n) ELSE NatStr(n)

---------------------------------------------------------------------------
(* package net/url: url.Parse, as far as its error and its Path *)

\* getScheme: [err, scheme, rest]
getScheme(rawURL) ==
    With({i \in 1..Len(rawURL) :
             ~(\/ IsLetter(rawURL[i])
               \/ (i > 1 /\ (IsDigit(rawURL[i]) \/ rawURL[i] \in {"+", "-", "."})))},
         LAMBDA stop :
        IF stop = {} THEN [err |-> FALSE, scheme |-> <<>>, rest |-> rawURL]
        ELSE With(SetMin(stop), LAMBDA i :
            IF rawURL[i] = ":" /\ i = 1
            THEN [err |-> TRUE, scheme |-> <<>>, rest |-> <<>>]
            ELSE IF rawURL[i] = ":"
            THEN [err |-> FALSE, scheme |-> SubSeq(rawURL, 1, i - 1),
                  rest |-> SubSeq(rawURL, i + 1, Len(rawURL))]
            ELSE [err |-> FALSE, scheme |-> <<>>, rest |-> rawURL]))

\* unescape's first pass: every % is followed by two hex digits
ValidEscapes(s) ==
    \A i \in 1..Len(s) :
        s[i] = "%" => (i + 2 <= Len(s) /\ IsHex(s[i + 1]) /\ IsHex(s[i + 2]))

\* unescape's second pass, in path mode
RECURSIVE Unescape(_)
Unescape(s) ==
    IF s = <<>> THEN <<>>
    ELSE IF s[1] = "%"
         THEN LET n == 16 * HexVal(s[2]) + HexVal(s[3])
              IN  <<IF n \in 32..126 THEN CharOf(n) ELSE "NONPRINT">>
                  \o Unescape(SubSeq(s, 4, Len(s)))
    ELSE <<s[1]>> \o Unescape(Tail(s))

\* parseAuthority's checks: the host's characters, its escapes, its port
ValidHost(host) ==
    /\ \A i \in 1..Len(host) :
           host[i] \notin {" ", "\\", "^", "GRAVE", "{", "|", "}", "/", "?", "@"}
    /\ \A i \in 1..Len(host) :
           host[i] = "%" =>
              /\ i + 2 <= Len(host) /\ IsHex(host[i + 1]) /\ IsHex(host[i + 2])
              /\ (HexVal(host[i + 1]) >= 8 \/ SubSeq(host, i, i + 2) = <<"%", "2", "5">>)
    /\ With({i \in 1..Len(host) : host[i] = ":"}, LAMBDA cols :
           cols # {} => \A i \in (SetMax(cols) + 1)..Len(host) : IsDigit(host[i]))

ValidAuthority(authority) ==
    With({i \in 1..Len(authority) : authority[i] = "@"}, LAMBDA ats :
        IF ats = {} THEN ValidHost(authority)
        ELSE ValidHost(SubSeq(authority, SetMax(ats) + 1, Len(authority))))

\* parse, once the scheme sch and the query are cut off rest0: the authority
\* and the path
ParseRest(sch, rest0) ==
    IF ~HasPrefix(rest0, <<"/">>) /\ sch.scheme # <<>>
    THEN [err |-> FALSE, Path |-> <<>>]            \* an opaque URL: no Path
    ELSE IF /\ ~HasPrefix(rest0, <<"/">>)
            /\ Contains(Cut(rest0, <<"/">>).before, <<":">>)
    THEN [err |-> TRUE, Path |-> <<>>]   \* first path segment cannot contain colon
    ELSE IF /\ (sch.scheme # <<>> \/ ~HasPrefix(rest0, <<"/", "/", "/">>))
            /\ HasPrefix(rest0, <<"/", "/">>)
    THEN With(Cut(SubSeq(rest0, 3, Len(rest0)), <<"/">>), LAMBDA c :
            IF ~ValidAuthority(c.before) THEN [err |-> TRUE, Path |-> <<>>]
            ELSE IF ~c.found THEN [err |-> FALSE, Path |-> <<>>]
            ELSE IF ~ValidEscapes(c.after) THEN [err |-> TRUE, Path |-> <<>>]
            ELSE [err |-> FALSE, Path |-> <<"/">> \o Unescape(c.after)])
    ELSE IF ~ValidEscapes(rest0) THEN [err |-> TRUE, Path |-> <<>>]
    ELSE [err |-> FALSE, Path |-> Unescape(rest0)]

\* url.Parse: [err, Path]
UrlParse(rawURL) ==
    With(Cut(rawURL, <<"#">>), LAMBDA hash :
        IF \E i \in 1..Len(hash.before) : IsCTL(hash.before[i])
        THEN [err |-> TRUE, Path |-> <<>>]
        ELSE IF hash.before = <<"*">> THEN [err |-> FALSE, Path |-> <<"*">>]
        ELSE With(getScheme(hash.before), LAMBDA sch :
            IF sch.err THEN [err |-> TRUE, Path |-> <<>>]
            ELSE With(ParseRest(sch, Cut(sch.rest, <<"?">>).before), LAMBDA u :
                IF ~u.err /\ ~ValidEscapes(hash.after)
                THEN [err |-> TRUE, Path |-> <<>>]
                ELSE u)))

---------------------------------------------------------------------------
(* package encoding/json: a string's literal, and back *)

\* the encoder's escape of one character (SetEscapeHTML is on by default)
EscapeChar(c) ==
    IF c \in {"\"", "\\"} THEN <<"\\", c>>
    ELSE IF c = "\n" THEN <<"\\", "n">>
    ELSE IF c = "\r" THEN <<"\\", "r">>
    ELSE IF c = "\t" THEN <<"\\", "t">>
    ELSE IF c \in {"<", ">", "&"}
         THEN <<"\\", "u", "0", "0",
                HexDigit(CodeOf(c) \div 16), HexDigit(CodeOf(c) % 16)>>
    ELSE <<c>>

RECURSIVE EscapeAll(_)
EscapeAll(s) == IF s = <<>> THEN <<>> ELSE EscapeChar(s[1]) \o EscapeAll(Tail(s))

\* whether the encoder copies the character as it is
SafeChar(c) == c \notin {"\"", "\\", "\n", "\r", "\t", "<", ">", "&"}

\* the literal the encoder writes for a string
jsonQuote(s) ==
    IF \A i \in 1..Len(s) : SafeChar(s[i])
    THEN <<"\"">> \o s \o <<"\"">>
    ELSE <<"\"">> \o EscapeAll(s) \o <<"\"">>

RECURSIVE UnescapeJSON(_)
UnescapeJSON(s) ==
    IF s = <<>> THEN <<>>
    ELSE IF s[1] = "\\" /\ s[2] = "u"
         THEN <<CharOf(4096 * HexVal(s[3]) + 256 * HexVal(s[4])
                       + 16 * HexVal(s[5]) + HexVal(s[6]))>>
              \o UnescapeJSON(SubSeq(s, 7, Len(s)))
    ELSE IF s[1] = "\\"
         THEN <<CASE s[2] = "n" -> "\n" [] s[2] = "r" -> "\r"
                  [] s[2] = "t" -> "\t" [] OTHER -> s[2]>>
              \o UnescapeJSON(SubSeq(s, 3, Len(s)))
    ELSE <<s[1]>> \o UnescapeJSON(Tail(s))

\* the string the decoder reads from a literal (unquote copies the bytes
\* between the quotes when no backslash is among them)
jsonUnquote(lit) ==
    IF \A i \in 1..Len(lit) : lit[i] # "\\"
    THEN SubSeq(lit, 2, Len(lit) - 1)
    ELSE UnescapeJSON(SubSeq(lit, 2, Len(lit) - 1))

---------------------------------------------------------------------------
(* RepoStore.Add: the normalisation and the checks of its argument *)

GithubComSlash == <<"g","i","t","h","u","b",".","c","o","m","/">>
HttpPrefix  == <<"h","t","t","p",":","/","/">>
HttpsPrefix == <<"h","t","t","p","s",":","/","/">>
PullWord == <<"p","u","l","l">>

\* Add's test for "looks like a URL"
LooksLikeURL(repo) ==
    \/ Contains(repo, GithubComSlash)
    \/ HasPrefix(repo, HttpPrefix)
    \/ HasPrefix(repo, HttpsPrefix)

\* Add's normalisation of a URL to owner/repo or owner/repo#number
NormalizeURL(repo) ==
    IF ~LooksLikeURL(repo) THEN repo
    ELSE With(UrlParse(repo), LAMBDA u :
        IF u.err THEN repo
        ELSE With(Split(Trim(u.Path, {"/"}), <<"/">>), LAMBDA parts :
            IF Len(parts) >= 4 /\ parts[3] = PullWord
            THEN IF Atoi(parts[4]).ok
                 THEN parts[1] \o <<"/">> \o parts[2] \o <<"#">> \o parts[4]
                 ELSE repo
            ELSE IF Len(parts) >= 2
                 THEN parts[1] \o <<"/">> \o parts[2]
            ELSE repo))

\* Add's checks of the normalised ref: the error, or "nil"
ValidateRef(repo) ==
    IF Contains(repo, <<"#">>)
    THEN With(SplitN2(repo, <<"#">>), LAMBDA parts :
         With(<<TrimSpace(parts[1]), TrimSpace(parts[2])>>, LAMBDA t :
            IF t[1] = <<>> \/ t[2] = <<>> THEN "invalid format"
            ELSE IF ~Atoi(t[2]).ok THEN "invalid pull request number"
            ELSE IF ~Contains(t[1], <<"/">>) THEN "repo must be in owner/repo format"
            ELSE "nil"))
    ELSE IF ~Contains(repo, <<"#">>) /\ ~Contains(repo, <<"/">>)
         THEN "repo must be in owner/repo format"
    ELSE "nil"

---------------------------------------------------------------------------
(* The arguments the commands are run with *)

sOwner == <<"o","w","n","e","r">>
sName  == <<"n","a","m","e">>
sOwnerName == sOwner \o <<"/">> \o sName                 \* owner/name
sGithubURL == HttpsPrefix \o GithubComSlash \o sOwnerName \* https://github.com/owner/name

\* raw arguments of `add`
AddInputs ==
    { <<" ", "\t">>,                                      \* white space only
      sOwnerName,
      <<"O","w","n","e","r","/","N","A","M","E">>,        \* another letter case
      <<" ">> \o sOwnerName \o <<" ", "\n">>,             \* to be trimmed
      sName,                                              \* no slash
      sOwnerName \o <<"#","4","2">>,
      sOwnerName \o <<"#","a","b","c">>,
      sOwnerName \o <<"#">>,
      <<"#","4","2">>,
      sOwnerName \o <<"#","-","4">>,                      \* a negative number
      sOwnerName \o <<"/","x">>,                          \* two slashes
      sGithubURL,
      sGithubURL \o <<"/","p","u","l","l","/","4","2">>,
      sGithubURL \o <<"/","p","u","l","l","/","4","2","/","f","i","l","e","s">>,
      sGithubURL \o <<"/","p","u","l","l","/","a","&","c">>,   \* no number
      HttpsPrefix \o GithubComSlash                       \* an escape, a query
          \o <<"O","W","N","E","R","/","n","a","%","6","D","e","?","t","=","x","#","4","2">>,
      GithubComSlash \o sOwnerName,                       \* no scheme
      <<":">> \o GithubComSlash \o sOwner \o <<"#","x">>  \* url.Parse fails
    }

\* raw arguments of `remove`
RemoveInputs ==
    { <<>>,
      sOwnerName,
      <<" ","O","W","N","E","R","/","N","A","M","E","\t">>,  \* trimmed, another case
      sOwnerName \o <<"#","4","2">>,
      sOwnerName \o <<"#","-","4">>,
      sOwnerName \o <<"/","x">>,
      GithubComSlash \o sOwner,
      sGithubURL,                                         \* Remove parses no URL
      sGithubURL \o <<"/","p","u","l","l","/","a","&","c">>
    }

\* a ref with a stray percent sign
sPercent == <<"o","w","%","n","e","r","/","n","a","m","e">>

\* raw arguments of `pr-view add`
AddArgs == { sOwnerName, sName, sPercent,
             sGithubURL \o <<"/","p","u","l","l","/","4","2">> }

\* The first lines of Add depend on the argument alone; they are tabulated:
\* the trimmed argument, the ref the URL normalisation makes of it, and the
\* verdict of Add's checks on that ref.
Prepared ==
    [raw \in AddInputs \cup AddArgs |->
        With(TrimSpace(raw), LAMBDA trimmed :
        With(NormalizeURL(trimmed), LAMBDA repo :
            [trimmed |-> trimmed, repo |-> repo, v |-> ValidateRef(repo)]))]

---------------------------------------------------------------------------
(* RepoStore *)

\* Bound: the store holds at most MaxRepos refs (Add is not offered beyond).
MaxRepos == 3

\* What the repos.json file may hold when a command starts: no file, a file
\* that cannot be opened, no bytes (or white space only), the literal null,
\* text that is not JSON, a JSON document cut short, a JSON value of another
\* type (an object, an array of numbers), or the array Save wrote.
FileKinds == {"missing", "unreadable", "empty", "null", "syntax",
              "truncated", "wrongtype", "array"}

NoFile == [kind |-> "missing", data |-> <<>>]

\* os.Open followed by json.NewDecoder(f).Decode(&repos): [err, repos]
DecodeFile(f) ==
    CASE f.kind = "missing"    -> [err |-> "not exist", repos |-> <<>>]
      [] f.kind = "unreadable" -> [err |-> "permission denied", repos |-> <<>>]
      [] f.kind = "empty"      -> [err |-> "EOF", repos |-> <<>>]
      [] f.kind = "null"       -> [err |-> "nil", repos |-> <<>>]
      [] f.kind = "syntax"     -> [err |-> "invalid character", repos |-> <<>>]
      [] f.kind = "truncated"  -> [err |-> "unexpected EOF", repos |-> <<>>]
      [] f.kind = "wrongtype"  -> [err |-> "cannot unmarshal", repos |-> <<>>]
      [] f.kind = "array"      ->
            [err |-> "nil",
             repos |-> [i \in 1..Len(f.data) |-> jsonUnquote(f.data[i])]]

\* Load, were it to take every decoding error for an empty file
Load_AnyErrorEmpty(f) ==
    With(DecodeFile(f), LAMBDA d :
        IF d.err \notin {"nil", "permission denied"}
        THEN [err |-> "nil", repos |-> <<>>]
        ELSE d)

\* RepoStore.Load: [err, repos]
Load(f) ==
    With(DecodeFile(f), LAMBDA d :
        IF d.err \in {"not exist", "EOF"} THEN [err |-> "nil", repos |-> <<>>]
        ELSE d)

\* RepoStore.Save: the file it leaves (the write itself is taken to succeed)
Save(rs) ==
    [kind |-> "array", data |-> [i \in 1..Len(rs) |-> jsonQuote(rs[i])]]

\* the duplicate check, were it to compare with ==
IsDuplicate_Exact(rs, repo) == \E i \in 1..Len(rs) : rs[i] = repo

\* Add's duplicate check
IsDuplicate(rs, repo) == \E i \in 1..Len(rs) : EqualFold(rs[i], repo)

\* the append, were it to put the new ref first
AppendRepo_Front(rs, repo) == <<repo>> \o rs

\* repos = append(repos, repo)
AppendRepo(rs, repo) == Append(rs, repo)

\* RepoStore.Add on file f, after the argument's normalisation and checks:
\* [err, file, repo], repo the ref after normalisation
AddChecked(f, trimmed, repo, v) ==
    IF trimmed = <<>> THEN [err |-> "empty repo", file |-> f, repo |-> trimmed]
    ELSE IF v # "nil" THEN [err |-> v, file |-> f, repo |-> repo]
    ELSE With(Load(f), LAMBDA l :
        IF l.err # "nil" THEN [err |-> l.err, file |-> f, repo |-> repo]
        ELSE IF IsDuplicate(l.repos, repo)
             THEN [err |-> "repo already exists", file |-> f, repo |-> repo]
        ELSE [err |-> "nil", file |-> Save(AppendRepo(l.repos, repo)), repo |-> repo])

\* Remove's search: the index of the first match, 0 when there is none
MatchIndex(rs, repo) ==
    With({i \in 1..Len(rs) : EqualFold(rs[i], repo) \/ rs[i] = repo}, LAMBDA hits :
        IF hits = {} THEN 0 ELSE SetMin(hits))

\* the removal, were it to drop the last element whatever idx is
RemoveAt_Last(rs, idx) == SubSeq(rs, 1, Len(rs) - 1)

\* append(repos[:idx], repos[idx+1:]...), idx 1-based
RemoveAt(rs, idx) == SubSeq(rs, 1, idx - 1) \o SubSeq(rs, idx + 1, Len(rs))

\* RepoStore.Remove on file f, after the argument's trimming: [err, file, repo]
RemoveTrimmed(f, repo) ==
    IF repo = <<>> THEN [err |-> "empty repo", file |-> f, repo |-> repo]
    ELSE With(Load(f), LAMBDA l :
        IF l.err # "nil" THEN [err |-> l.err, file |-> f, repo |-> repo]
        ELSE With(MatchIndex(l.repos, repo), LAMBDA idx :
            IF idx = 0 THEN [err |-> "repo not found", file |-> f, repo |-> repo]
            ELSE [err |-> "nil", file |-> Save(RemoveAt(l.repos, idx)),
                  repo |-> repo]))

\* RepoStore.Add on file f
AddResult(f, raw) ==
    With(Prepared[raw], LAMBDA p : AddChecked(f, p.trimmed, p.repo, p.v))

\* RepoStore.Remove on file f
RemoveResult(f, raw) ==
    With(TrimSpace(raw), LAMBDA repo : RemoveTrimmed(f, repo))

NoOp == [op |-> "none", raw |-> <<>>, err |-> "nil", repo |-> <<>>,
         before |-> NoFile, loaded |-> <<>>]

\* the variables of `pr-view list` and of the renderer, at rest
ListIdle ==
    /\ repos = <<>> /\ nextSpawn = 1 /\ wg = 0 /\ ch = <<>> /\ chClosed = FALSE
    /\ pcW = <<>> /\ outcome = <<>> /\ sends = <<>> /\ results = <<>>
    /\ table = <<>>

ProcessIdle == argv = <<>> /\ homeOK = TRUE /\ pcMain = "idle" /\ exitCode = -1

RenderIdle == rres = [Repo |-> <<>>, PRs |-> <<>>, Err |-> "nil"]

---------------------------------------------------------------------------
(* SpecStore: calls of the RepoStore's methods, one after another *)

InitStore ==
    /\ file \in {[kind |-> k, data |-> <<>>] : k \in FileKinds}
    /\ lastOp = NoOp
    /\ ProcessIdle /\ ListIdle /\ RenderIdle

\* s.Add(raw)
Add(raw) ==
    \E r \in {AddResult(file, raw)} :
        /\ Len(r.file.data) <= MaxRepos
        /\ file' = r.file
        /\ lastOp' = [op |-> "add", raw |-> raw, err |-> r.err, repo |-> r.repo,
                      before |-> file, loaded |-> <<>>]

\* s.Remove(raw)
Remove(raw) ==
    \E r \in {RemoveResult(file, raw)} :
        /\ file' = r.file
        /\ lastOp' = [op |-> "remove", raw |-> raw, err |-> r.err, repo |-> r.repo,
                      before |-> file, loaded |-> <<>>]

\* s.Load()
LoadCall ==
    \E l \in {Load(file)} :
        /\ lastOp' = [op |-> "load", raw |-> <<>>, err |-> l.err, repo |-> <<>>,
                      before |-> file, loaded |-> l.repos]
        /\ UNCHANGED file

StoreFrame ==
    UNCHANGED <<argv, homeOK, pcMain, exitCode, repos, nextSpawn, wg, ch,
                chClosed, pcW, outcome, sends, results, table, rres>>

NextStore ==
    \/ (\E raw \in AddInputs : Add(raw)) /\ StoreFrame
    \/ (\E raw \in RemoveInputs : Remove(raw)) /\ StoreFrame
    \/ LoadCall /\ StoreFrame

SpecStore == InitStore /\ [][NextStore]_vars

---------------------------------------------------------------------------
(* fetchPRs *)

ApiRepos == <<"h","t","t","p","s",":","/","/","a","p","i",".","g","i","t","h","u","b",
              ".","c","o","m","/","r","e","p","o","s","/">>
PullsPath == <<"/","p","u","l","l","s">>
OpenQuery == <<"?","s","t","a","t","e","=","o","p","e","n">>

\* the request's URL for owner/name, and whether http.NewRequest returned a
\* request (it does not when url.Parse fails)
RequestFor(parts, singlePR, nstr) ==
    With(IF singlePR
         THEN ApiRepos \o parts[1] \o <<"/">> \o parts[2] \o PullsPath
              \o <<"/">> \o Itoa(Atoi(nstr).val)
         ELSE ApiRepos \o parts[1] \o <<"/">> \o parts[2] \o PullsPath \o OpenQuery,
         LAMBDA url :
        [err |-> "nil", singlePR |-> singlePR, url |-> url,
         built |-> ~UrlParse(url).err])

\* fetchPRs up to http.NewRequest: [err, singlePR, url, built]
FetchRequest(repo) ==
    With(SplitN2(repo, <<"#">>), LAMBDA p :
    With(<<IF Len(p) = 2 THEN TrimSpace(p[1]) ELSE repo,
           IF Len(p) = 2 THEN TrimSpace(p[2]) ELSE <<>> >>, LAMBDA t :
    With(t[2] # <<>> /\ Atoi(t[2]).ok, LAMBDA singlePR :
    With(SplitN2(t[1], <<"/">>), LAMBDA parts :
        IF Len(parts) # 2
        THEN [err |-> "invalid repo", singlePR |-> singlePR, url |-> <<>>,
              built |-> FALSE]
        ELSE RequestFor(parts, singlePR, t[2])))))

\* what the GitHub API may answer a request with: open pull requests, none,
\* or a failure (transport error or timeout, a status other than 200, a body
\* that does not decode)
ApiAnswers(singlePR) ==
    IF singlePR THEN {"prs", "error"} ELSE {"prs", "none", "error"}

sFix == <<"f","i","x">>
sPRURL == <<"h","t","t","p","s",":","/","/","g","h","/","1">>

\* the PRResult a goroutine sends for an answer
ResultOf(repo, answer) ==
    CASE answer = "prs"  -> [Repo |-> repo,
                             PRs  |-> <<[Number |-> 1, Title |-> sFix, HTMLURL |-> sPRURL]>>,
                             Err  |-> "nil"]
      [] answer = "none" -> [Repo |-> repo, PRs |-> <<>>, Err |-> "nil"]
      [] OTHER           -> [Repo |-> repo, PRs |-> <<>>, Err |-> answer]

---------------------------------------------------------------------------
(* truncate and printTable *)

\* The width of the title column's cells.
TitleMax == 60

\* the UTF-8 width of a rune of the model
Utf8Len(r) == CASE r = "U+00E9" -> 2 [] r = "U+65E5" -> 3 [] OTHER -> 1

RECURSIVE ByteLen(_)
ByteLen(s) == IF s = <<>> THEN 0 ELSE Utf8Len(s[1]) + ByteLen(Tail(s))

\* the runes of s that lie whole within its first n bytes
RECURSIVE BytePrefix(_, _)
BytePrefix(s, n) ==
    IF s = <<>> \/ Utf8Len(s[1]) > n THEN <<>>
    ELSE <<s[1]>> \o BytePrefix(Tail(s), n - Utf8Len(s[1]))

\* truncate, were it to measure and to cut the string in bytes
truncate_Bytes(s, max) ==
    IF max <= 0 THEN <<>>
    ELSE IF ByteLen(s) <= max THEN s
    ELSE IF max <= 3 THEN BytePrefix(s, max)
    ELSE BytePrefix(s, max - 3) \o <<".", ".", ".">>

\* truncate(s, max), s a sequence of runes
truncate(s, max) ==
    IF max <= 0 THEN <<>>
    ELSE IF Len(s) <= max THEN s
    ELSE IF max <= 3 THEN SubSeq(s, 1, max)
    ELSE SubSeq(s, 1, max - 3) \o <<".", ".", ".">>

sErrorOpen == <<"(","e","r","r","o","r",":"," ">>
sNoOpenPRs == <<"(","n","o"," ","o","p","e","n"," ","P","R","s",")">>

\* the rows printTable makes of one PRResult: <<repo, url, title>> each
RowsOf(res) ==
    IF res.Err # "nil" THEN << <<res.Repo, <<>>, sErrorOpen \o <<res.Err>> \o <<")">> >> >>
    ELSE IF res.PRs = <<>> THEN << <<res.Repo, <<>>, sNoOpenPRs>> >>
    ELSE [i \in 1..Len(res.PRs) |->
            <<res.Repo, res.PRs[i].HTMLURL, truncate(res.PRs[i].Title, TitleMax)>>]

\* printTable's rows
RECURSIVE printTable(_)
printTable(rs) ==
    IF rs = <<>> THEN <<>> ELSE RowsOf(rs[1]) \o printTable(Tail(rs))

---------------------------------------------------------------------------
(* SpecMain: one run of the program, from main to os.Exit *)

\* Bound: the repos.json a run starts with lists at most MaxListed refs.
MaxListed == 3

\* the refs of the files a run may start with, in the order they were added
ListRefs == << sOwnerName,
               sOwnerName \o <<"#","4","2">>,
               sPercent,
               sOwnerName \o <<"/","x">>,
               GithubComSlash \o sOwner >>

\* fetchPRs' request for each of them
FetchPlan == [i \in 1..Len(ListRefs) |-> FetchRequest(ListRefs[i])]
PlanOf(repo) == FetchPlan[CHOOSE i \in 1..Len(ListRefs) : ListRefs[i] = repo]

RECURSIVE Pick(_, _)
\* the refs of ListRefs at the indices of S, in order
Pick(S, from) ==
    IF from > Len(ListRefs) THEN <<>>
    ELSE IF from \in S THEN <<ListRefs[from]>> \o Pick(S, from + 1)
    ELSE Pick(S, from + 1)

\* the files a run may start with: every kind, and the arrays Add leaves
StartFiles ==
    {[kind |-> k, data |-> <<>>] : k \in FileKinds \ {"array"}}
    \cup {Save(Pick(S, 1)) : S \in {T \in SUBSET (1..Len(ListRefs)) :
                                      Cardinality(T) <= MaxListed}}

\* os.Args[1:]
Argvs ==
    { <<>>, <<"list">>, <<"add">>, <<"remove">>, <<"status">> }
    \cup {<<"add", raw>> : raw \in AddArgs}
    \cup {<<"remove", raw>> : raw \in { sOwnerName, <<>> }}

InitMain ==
    /\ file \in StartFiles
    /\ argv \in Argvs
    /\ homeOK \in BOOLEAN
    /\ pcMain = "main"
    /\ exitCode = -1
    /\ lastOp = NoOp
    /\ ListIdle /\ RenderIdle

ListVars == <<repos, nextSpawn, wg, ch, chClosed, pcW, outcome, sends, results, table>>

\* os.Exit(code)
Exit(code) == pcMain' = "exited" /\ exitCode' = code

\* cmd := os.Args[1], "" when len(os.Args) < 2
Command == IF argv = <<>> THEN "" ELSE argv[1]

\* main: no command, or an unknown one
mainUsage ==
    /\ pcMain = "main"
    /\ Command \notin {"add", "list", "remove"}
    /\ Exit(2)
    /\ UNCHANGED <<file, lastOp, argv, homeOK, rres>> /\ UNCHANGED ListVars

\* cmdAdd
cmdAdd ==
    /\ pcMain = "main" /\ Command = "add"
    /\ IF Len(argv) < 2 THEN Exit(2) /\ UNCHANGED <<file, lastOp>>
       ELSE IF ~homeOK THEN Exit(1) /\ UNCHANGED <<file, lastOp>>
       ELSE \E r \in {AddResult(file, argv[2])} :
                /\ file' = r.file
                /\ lastOp' = [op |-> "add", raw |-> argv[2], err |-> r.err,
                              repo |-> r.repo, before |-> file, loaded |-> <<>>]
                /\ Exit(IF r.err # "nil" THEN 1 ELSE 0)
    /\ UNCHANGED <<argv, homeOK, rres>> /\ UNCHANGED ListVars

\* cmdRemove
cmdRemove ==
    /\ pcMain = "main" /\ Command = "remove"
    /\ IF Len(argv) < 2 THEN Exit(2) /\ UNCHANGED <<file, lastOp>>
       ELSE IF ~homeOK THEN Exit(1) /\ UNCHANGED <<file, lastOp>>
       ELSE \E r \in {RemoveResult(file, argv[2])} :
                /\ file' = r.file
                /\ lastOp' = [op |-> "remove", raw |-> argv[2], err |-> r.err,
                              repo |-> r.repo, before |-> file, loaded |-> <<>>]
                /\ Exit(IF r.err # "nil" THEN 1 ELSE 0)
    /\ UNCHANGED <<argv, homeOK, rres>> /\ UNCHANGED ListVars

\* the channel's capacity, were the channel unbuffered
ChanCap_Unbuffered(rs) == 0

\* make(chan PRResult, len(repos))
ChanCap(rs) == Len(rs)

\* cmdList, up to the loop that starts the goroutines
cmdList ==
    /\ pcMain = "main" /\ Command = "list"
    /\ \E l \in {Load(file)} :
           IF ~homeOK \/ l.err # "nil"
           THEN Exit(1) /\ UNCHANGED <<lastOp, repos, pcW, outcome, sends>>
           ELSE /\ lastOp' = [op |-> "load", raw |-> <<>>, err |-> l.err, repo |-> <<>>,
                              before |-> file, loaded |-> l.repos]
                /\ repos' = l.repos
                /\ pcW' = [w \in 1..Len(l.repos) |-> "idle"]
                /\ outcome' = [w \in 1..Len(l.repos) |-> "pending"]
                /\ sends' = [w \in 1..Len(l.repos) |-> 0]
                /\ IF Len(l.repos) = 0
                   THEN Exit(0)
                   ELSE pcMain' = "spawn" /\ UNCHANGED exitCode
    /\ UNCHANGED <<file, argv, homeOK, rres, nextSpawn, wg, ch, chClosed, results, table>>

\* one turn of `for _, r := range repos`: wg.Add(1); go func(repo string){...}(r)
ListSpawn ==
    /\ pcMain = "spawn"
    /\ wg' = wg + 1
    /\ pcW' = [pcW EXCEPT ![nextSpawn] = "fetch"]
    /\ nextSpawn' = nextSpawn + 1
    /\ pcMain' = IF nextSpawn = Len(repos) THEN "wait" ELSE "spawn"
    /\ UNCHANGED <<file, lastOp, argv, homeOK, exitCode, repos, ch, chClosed,
                   outcome, sends, results, table, rres>>

Alive == pcMain \notin {"exited", "crashed"}

\* a goroutine's fetchPRs(repo, token).  When http.NewRequest returns no
\* request, req.Header.Set dereferences nil: the panic ends the process with
\* status 2.
WorkerFetch(w) ==
    /\ Alive /\ pcW[w] = "fetch"
    /\ \E plan \in {PlanOf(repos[w])} :
           IF plan.err # "nil"
           THEN /\ outcome' = [outcome EXCEPT ![w] = plan.err]
                /\ pcW' = [pcW EXCEPT ![w] = "send"]
                /\ UNCHANGED <<pcMain, exitCode>>
           ELSE IF ~plan.built
           THEN /\ pcMain' = "crashed" /\ exitCode' = 2
                /\ UNCHANGED <<outcome, pcW>>
           ELSE /\ \E a \in ApiAnswers(plan.singlePR) :
                      outcome' = [outcome EXCEPT ![w] = a]
                /\ pcW' = [pcW EXCEPT ![w] = "send"]
                /\ UNCHANGED <<pcMain, exitCode>>
    /\ UNCHANGED <<file, lastOp, argv, homeOK, repos, nextSpawn, wg, ch, chClosed,
                   sends, results, table, rres>>

\* ch <- PRResult{...}: blocks while the buffer is full
WorkerSend(w) ==
    /\ Alive /\ pcW[w] = "send"
    /\ Len(ch) < ChanCap(repos)
    /\ ch' = Append(ch, ResultOf(repos[w], outcome[w]))
    /\ sends' = [sends EXCEPT ![w] = @ + 1]
    /\ pcW' = [pcW EXCEPT ![w] = "deferred"]
    /\ UNCHANGED <<file, lastOp, argv, homeOK, pcMain, exitCode, repos, nextSpawn,
                   wg, chClosed, outcome, results, table, rres>>

\* the deferred wg.Done()
WorkerDone(w) ==
    /\ Alive /\ pcW[w] = "deferred"
    /\ wg' = wg - 1
    /\ pcW' = [pcW EXCEPT ![w] = "done"]
    /\ UNCHANGED <<file, lastOp, argv, homeOK, pcMain, exitCode, repos, nextSpawn,
                   ch, chClosed, outcome, sends, results, table, rres>>

\* wg.Wait() returns
ListWait ==
    /\ pcMain = "wait" /\ wg = 0
    /\ pcMain' = "close"
    /\ UNCHANGED <<file, lastOp, argv, homeOK, exitCode, rres>> /\ UNCHANGED ListVars

\* close(ch)
ListClose ==
    /\ pcMain = "close"
    /\ chClosed' = TRUE
    /\ pcMain' = "drain"
    /\ UNCHANGED <<file, lastOp, argv, homeOK, exitCode, repos, nextSpawn, wg, ch,
                   pcW, outcome, sends, results, table, rres>>

\* one turn of `for res := range ch`
ListDrain ==
    /\ pcMain = "drain" /\ ch # <<>>
    /\ results' = Append(results, Head(ch))
    /\ ch' = Tail(ch)
    /\ UNCHANGED <<file, lastOp, argv, homeOK, pcMain, exitCode, repos, nextSpawn,
                   wg, chClosed, pcW, outcome, sends, table, rres>>

\* the range loop ends on the closed, empty channel; printTable; return 0
ListPrint ==
    /\ pcMain = "drain" /\ ch = <<>> /\ chClosed
    /\ table' = printTable(results)
    /\ Exit(0)
    /\ UNCHANGED <<file, lastOp, argv, homeOK, repos, nextSpawn, wg, ch, chClosed,
                   pcW, outcome, sends, results, rres>>

NextMain ==
    \/ mainUsage
    \/ cmdAdd
    \/ cmdRemove
    \/ cmdList
    \/ ListSpawn
    \/ \E w \in 1..Len(repos) : WorkerFetch(w)
    \/ \E w \in 1..Len(repos) : WorkerSend(w)
    \/ \E w \in 1..Len(repos) : WorkerDone(w)
    \/ ListWait
    \/ ListClose
    \/ ListDrain
    \/ ListPrint

SpecMain == InitMain /\ [][NextMain]_vars

\* The Go scheduler runs every runnable goroutine, and fetchPRs returns within
\* its client's timeout: no enabled step is put off for ever.
SpecMainFair ==
    /\ SpecMain
    /\ WF_vars(mainUsage \/ cmdAdd \/ cmdRemove \/ cmdList)
    /\ WF_vars(ListSpawn \/ ListWait \/ ListClose \/ ListDrain \/ ListPrint)
    /\ \A w \in 1..MaxListed :
          WF_vars(w <= Len(repos) /\ (WorkerFetch(w) \/ WorkerSend(w) \/ WorkerDone(w)))

---------------------------------------------------------------------------
(* SpecRender: printTable on one result, whatever its pull request's title *)

\* Bound: the titles rendered have at most MaxTitleLen runes.
MaxTitleLen == 64

\* one rune of each UTF-8 width (the titles come out of the JSON decoder,
\* which leaves no invalid UTF-8 in a string)
Runes == <<"a", "U+00E9", "U+65E5">>

\* the title of n runes of pattern pat: ASCII only, or the widths in turn
TitleOf(n, pat) ==
    [i \in 1..n |-> IF pat = 0 THEN "a" ELSE Runes[((i + pat) % 3) + 1]]

Titles == {TitleOf(n, pat) : n \in 0..MaxTitleLen, pat \in 0..3}

InitRender ==
    /\ rres \in {[Repo |-> sOwnerName,
                  PRs  |-> <<[Number |-> 1, Title |-> t, HTMLURL |-> sPRURL]>>,
                  Err  |-> "nil"] : t \in Titles}
    /\ file = NoFile /\ lastOp = NoOp
    /\ ProcessIdle /\ ListIdle

\* printTable([]PRResult{rres})
Render ==
    /\ table = <<>>
    /\ table' = printTable(<<rres>>)
    /\ UNCHANGED <<file, lastOp, argv, homeOK, pcMain, exitCode, repos, nextSpawn,
                   wg, ch, chClosed, pcW, outcome, sends, results, rres>>

NextRender == Render

SpecRender == InitRender /\ [][NextRender]_vars

---------------------------------------------------------------------------
(* Claims about the RepoStore, under SpecStore *)

\* the sequence a file persists (empty when it cannot be loaded)
Stored(f) == Load(f).repos

BeforeSeq == Stored(lastOp.before)
AfterSeq  == Stored(file)

\* C1: an Add whose normalised ref equals a stored one ignoring letter case
\* returns an error and leaves the persisted sequence as it was.
C1_DuplicateAddRejected ==
    (/\ lastOp.op = "add"
     /\ \E i \in 1..Len(BeforeSeq) : EqualFold(BeforeSeq[i], lastOp.repo))
    => (lastOp.err # "nil" /\ AfterSeq = BeforeSeq /\ file = lastOp.before)

\* C1's case: a duplicate in another letter case was refused
C1_Witness ==
    /\ lastOp.op = "add"
    /\ lastOp.err = "repo already exists"
    /\ \E i \in 1..Len(BeforeSeq) :
          BeforeSeq[i] # lastOp.repo /\ EqualFold(BeforeSeq[i], lastOp.repo)

\* the text before the first '#' and the text after it
NamePortion(id) == Cut(id, <<"#">>).before
NumberSuffix(id) == Cut(id, <<"#">>).after

\* section 3's invariant of a RepoRef: exactly one '/' in the name portion;
\* a '#' suffix, if present, is a non-negative decimal number
ValidRepoRef(id) ==
    /\ Cardinality({i \in 1..Len(NamePortion(id)) : NamePortion(id)[i] = "/"}) = 1
    /\ Contains(id, <<"#">>) =>
          /\ NumberSuffix(id) # <<>>
          /\ \A i \in 1..Len(NumberSuffix(id)) : IsDigit(NumberSuffix(id)[i])

\* C2: after any Adds and Removes from an empty store, every persisted
\* identifier is a valid RepoRef.
C2_StoredRefsValid ==
    \A i \in 1..Len(AfterSeq) : ValidRepoRef(AfterSeq[i])

MalformedKinds == {"syntax", "truncated", "wrongtype"}

EmptyArray == [kind |-> "array", data |-> <<>>]

ClaimedRef(raw) ==
    LET after == Cut(TrimSpace(raw), GithubComSlash).after
        bare  == Cut(Cut(after, <<"#">>).before, <<"?">>).before
        path  == IF ValidEscapes(bare) THEN Unescape(bare) ELSE bare
        segs  == Split(Trim(path, {"/"}), <<"/">>)
        ownerName == segs[1] \o <<"/">> \o (IF Len(segs) >= 2 THEN segs[2] ELSE <<>>)
    IN  IF /\ Len(segs) >= 4
           /\ segs[3] = PullWord
           /\ segs[4] # <<>>
           /\ \A i \in 1..Len(segs[4]) : IsDigit(segs[4][i])
        THEN ownerName \o <<"#">> \o segs[4]
        ELSE ownerName

\* C4: what a successful Add stores for a URL is owner/name#<digits> for a
\* path owner/name/pull/<digits> and owner/name otherwise, owner and name
\* being those of the URL.
C4_URLNormalised ==
    (/\ lastOp.op = "add"
     /\ lastOp.err = "nil"
     /\ LooksLikeURL(TrimSpace(lastOp.raw)))
    => (/\ lastOp.repo = ClaimedRef(lastOp.raw)
        /\ AfterSeq[Len(AfterSeq)] = ClaimedRef(lastOp.raw))

\* the indices of the stored refs that Remove's argument matches
Matches(rs, raw) ==
    {i \in 1..Len(rs) : EqualFold(rs[i], TrimSpace(raw)) \/ rs[i] = TrimSpace(raw)}

\* C5: a Remove that matches no stored ref returns an error and changes
\* nothing; otherwise it deletes exactly the first match, the others keeping
\* their order.
C5_RemoveFirstMatch ==
    lastOp.op = "remove" =>
        IF Matches(BeforeSeq, lastOp.raw) = {}
        THEN lastOp.err # "nil" /\ AfterSeq = BeforeSeq /\ file = lastOp.before
        ELSE LET k == SetMin(Matches(BeforeSeq, lastOp.raw))
             IN  /\ lastOp.err = "nil"
                 /\ Len(AfterSeq) = Len(BeforeSeq) - 1
                 /\ \A i \in 1..Len(AfterSeq) :
                       AfterSeq[i] = IF i < k THEN BeforeSeq[i] ELSE BeforeSeq[i + 1]

\* C5's case: a ref that is not the last of three was removed
C5_Witness ==
    /\ lastOp.op = "remove"
    /\ lastOp.err = "nil"
    /\ Len(BeforeSeq) = 3
    /\ Matches(BeforeSeq, lastOp.raw) = {1}
    /\ AfterSeq = <<BeforeSeq[2], BeforeSeq[3]>>

\* C10: no two persisted identifiers are equal ignoring letter case, and a
\* successful Add only appends its ref at the end.
C10_NoDuplicatesAppendOnly ==
    /\ \A i, j \in 1..Len(AfterSeq) :
          i # j => ~EqualFold(AfterSeq[i], AfterSeq[j])
    /\ (lastOp.op = "add" /\ lastOp.err = "nil")
       => AfterSeq = BeforeSeq \o <<lastOp.repo>>

\* C10's case: an Add appended after two stored refs
C10_Witness ==
    /\ lastOp.op = "add"
    /\ lastOp.err = "nil"
    /\ Len(BeforeSeq) = 2
    /\ Len(AfterSeq) = 3
    /\ AfterSeq[3] = lastOp.repo

---------------------------------------------------------------------------
(* Claims about `pr-view list` and the exit codes, under SpecMain *)

\* the run is a `list` that loaded a non-empty store
Listing == Command = "list" /\ repos # <<>>

\* the fetch of worker w failed
FetchFailed(w) == outcome[w] \notin {"pending", "prs", "none"}

\* C6: when a list of a non-empty store has ended, the results it collected
\* hold exactly one outcome per stored ref, whichever fetches failed and
\* however the workers interleaved.
C6_OneOutcomePerRef ==
    (Listing /\ pcMain \in {"exited", "crashed"})
    => (/\ Len(results) = Len(repos)
        /\ \A w \in 1..Len(repos) :
              /\ Cardinality({i \in 1..Len(results) : results[i].Repo = repos[w]}) = 1
              /\ \A i \in 1..Len(results) :
                    results[i].Repo = repos[w] =>
                        (results[i].Err # "nil" <=> FetchFailed(w)))

\* what holds of the workers, the channel and the join at every moment
FanInSafe ==
    \A w \in 1..Len(repos) :
        /\ pcW[w] = "send" => Len(ch) < ChanCap(repos)    \* the write does not block
        /\ sends[w] <= 1
        /\ pcW[w] \in {"deferred", "done"} => sends[w] = 1
        /\ pcMain \in {"close", "drain"} => pcW[w] = "done"
        /\ chClosed => pcW[w] = "done" /\ sends[w] = 1      \* no write after close

\* C7: no worker blocks on its write, each writes exactly once, the channel is
\* closed only after every worker has written, and, every fetch returning,
\* the run reaches the rendering and exits.
C7_FanInCompletes ==
    /\ []FanInSafe
    /\ [](pcMain # "crashed")
          => <>(/\ pcMain = "exited"
                /\ (Listing /\ exitCode = 0) =>
                      (Len(results) = Len(repos) /\ Len(table) >= Len(repos)))

\* C7's case: a list of MaxListed refs, one fetch failing, was rendered
C7_Witness ==
    /\ Listing /\ pcMain = "exited"
    /\ Len(repos) = MaxListed
    /\ \E w \in 1..Len(repos) : FetchFailed(w)
    /\ \A w \in 1..Len(repos) : sends[w] = 1 /\ pcW[w] = "done"
    /\ chClosed /\ Len(table) = Len(repos)

LoadErrors == {"permission denied", "invalid character", "unexpected EOF",
               "cannot unmarshal"}

\* no command, an unknown command, or add/remove without an argument
UsageError ==
    \/ Command \notin {"add", "list", "remove"}
    \/ Command \in {"add", "remove"} /\ Len(argv) < 2

\* a store I/O error, or an API failure while fetching during list
OperationalError ==
    \/ ~homeOK
    \/ Command \in {"add", "remove"} /\ lastOp.err \in LoadErrors
    \/ Command = "list" /\ Load(file).err \in LoadErrors
    \/ Command = "list" /\ \E w \in 1..Len(repos) : FetchFailed(w)

\* the command did what it was asked
Succeeded ==
    \/ Command \in {"add", "remove"} /\ lastOp.op = Command /\ lastOp.err = "nil"
    \/ Command = "list"

\* C8: a run exits with 2 on a usage error, with 1 on an operational error,
\* with 0 when the command succeeds.
C8_ExitCodes ==
    pcMain = "exited" =>
        IF UsageError THEN exitCode = 2
        ELSE IF OperationalError THEN exitCode = 1
        ELSE IF Succeeded THEN exitCode = 0
        ELSE exitCode # 0

---------------------------------------------------------------------------
(* Claims about the renderer, under SpecRender *)

\* the title rendered, and its cell in the table
RenderedTitle == rres.PRs[1].Title
TitleCell == table[1][3]

\* C9: the title cell is the title when it has at most 60 runes, and else its
\* first 57 runes followed by "...", 60 runes in all; runes, not bytes.
C9_TitleCell ==
    table # <<>> =>
        IF Len(RenderedTitle) <= 60 THEN TitleCell = RenderedTitle
        ELSE /\ Len(TitleCell) = 60
             /\ SubSeq(TitleCell, 1, 57) = SubSeq(RenderedTitle, 1, 57)
             /\ SubSeq(TitleCell, 58, 60) = <<".", ".", ".">>

\* C9's case: a title of more than 60 runes, some of several bytes, was cut
C9_Witness ==
    /\ table # <<>>
    /\ Len(RenderedTitle) > 60
    /\ ByteLen(RenderedTitle) > Len(RenderedTitle)
    /\ Len(TitleCell) = 60
    /\ TitleCell[57] = RenderedTitle[57] /\ TitleCell[58] = "."

=============================================================================
